---- MODULE Spec2Model ----
(***************************************************************************)
(* Model of src/initialize.py: the per-session initialisation sequence of  *)
(* a Streamlit application.  Every browser session runs initialize() in    *)
(* its own script thread of one server process; st.session_state is        *)
(* private to the session, the logger named ct.LOGGER_NAME is shared by    *)
(* the whole process.                                                      *)
(***************************************************************************)
EXTENDS Naturals, Sequences, FiniteSets, TLC

\* ---------------------------------------------------------------- bounds
NumSessions == 2   \* browser sessions served by the process
NumIds == 2        \* distinct values uuid4().hex is drawn from
MaxCalls == 2      \* initialize() invocations in the process

Sessions == 1..NumSessions
Ids == 1..NumIds

VARIABLES
    st,          \* st[s]: st.session_state of session s, a function key -> value
    pc,          \* pc[s]: the statement of initialize() session s is about to run
    callNo,      \* callNo[s]: how many times session s has called initialize()
    handlers,    \* handlers of logging.getLogger(ct.LOGGER_NAME): the session id
                 \* each handler's formatter embeds, in attachment order
    level,       \* level of the shared logger
    calls,       \* initialize() invocations started in the process
    loggerCalls  \* initialize_logger() invocations that returned

vars == <<st, pc, callNo, handlers, level, calls, loggerCalls>>

\* --------------------------------------------------------- session state
EmptyState == [k \in {} |-> 0]

\* d[k] = v for every key of g, the other keys of d unchanged
Merge(d, g) ==
    [k \in (DOMAIN d) \cup (DOMAIN g) |-> IF k \in DOMAIN g THEN g[k] ELSE d[k]]

Put(d, key, val) == Merge(d, [k \in {key} |-> val])

\* the values initialize_session_state() assigns
SessionDefaults ==
    [messages |-> <<>>,
     chat_history |-> <<>>,
     total_tokens |-> 0,
     feedback_yes_flg |-> FALSE,
     feedback_no_flg |-> FALSE,
     answer_flg |-> FALSE,
     dissatisfied_reason |-> "",
     feedback_no_reason_send_flg |-> FALSE]

\* ------------------------------------------------------------ initialize
\* the sub-steps of initialize(), in call order
MisorderedInitialize == <<"session_state", "logger", "session_id", "agent">>

InitializeOrder == <<"session_state", "session_id", "logger", "agent">>

RECURSIVE IndexOf(_, _, _)
IndexOf(seq, x, i) ==
    IF i > Len(seq) THEN 0
    ELSE IF seq[i] = x THEN i
    ELSE IndexOf(seq, x, i + 1)

\* where control goes when the sub-step `step` returns
AfterStep(step) ==
    LET i == IndexOf(InitializeOrder, step, 1)
    IN  IF i < Len(InitializeOrder) THEN InitializeOrder[i + 1] ELSE "idle"

Init ==
    /\ st = [s \in Sessions |-> EmptyState]
    /\ pc = [s \in Sessions |-> "idle"]
    /\ callNo = [s \in Sessions |-> 0]
    /\ handlers = <<>>
    /\ level = "NOTSET"
    /\ calls = 0
    /\ loggerCalls = 0

\* an exception leaves initialize(): the script run of the session ends
Raise(s) == pc' = [pc EXCEPT ![s] = "raised"]

\* no script run of the session is in progress
AtRest(s) == pc[s] \in {"idle", "raised"}

\* the page is (re)loaded: the script calls initialize()
Initialize(s) ==
    /\ AtRest(s)
    /\ calls < MaxCalls
    /\ calls' = calls + 1
    /\ callNo' = [callNo EXCEPT ![s] = callNo[s] + 1]
    /\ pc' = [pc EXCEPT ![s] = InitializeOrder[1]]
    /\ UNCHANGED <<st, handlers, level, loggerCalls>>

\* if "messages" not in st.session_state
NeedsSessionState(d) == "messages" \notin DOMAIN d

InitializeSessionState(s) ==
    /\ pc[s] = "session_state"
    /\ st' = [st EXCEPT ![s] =
                IF NeedsSessionState(st[s])
                THEN Merge(st[s], SessionDefaults)
                ELSE st[s]]
    /\ pc' = [pc EXCEPT ![s] = AfterStep("session_state")]
    /\ UNCHANGED <<callNo, handlers, level, calls, loggerCalls>>

\* if "session_id" not in st.session_state
NeedsSessionId(d) == "session_id" \notin DOMAIN d

\* uuid4() draws the id at random: any value of Ids, unrelated to earlier draws
InitializeSessionId(s) ==
    /\ pc[s] = "session_id"
    /\ \E id \in Ids :
          st' = [st EXCEPT ![s] =
                    IF NeedsSessionId(st[s])
                    THEN Put(st[s], "session_id", id)
                    ELSE st[s]]
    /\ pc' = [pc EXCEPT ![s] = AfterStep("session_id")]
    /\ UNCHANGED <<callNo, handlers, level, calls, loggerCalls>>

\* ---------------------------------------------------- initialize_logger
\* logger.hasHandlers(): no ancestor of the logger carries a handler in this
\* process, so the answer is decided by the logger's own handler list
hasHandlersNever(h) == FALSE

hasSeveralHandlers(h) == Len(h) > 1

hasHandlers(h) == Len(h) > 0

\* os.makedirs(...), getLogger(...), and the test `if logger.hasHandlers(): return`
LoggerCheck(s) ==
    /\ pc[s] = "logger"
    /\ IF hasHandlers(handlers)
       THEN /\ pc' = [pc EXCEPT ![s] = AfterStep("logger")]
            /\ loggerCalls' = loggerCalls + 1
       ELSE /\ pc' = [pc EXCEPT ![s] = "logger_add"]
            /\ UNCHANGED loggerCalls
    /\ UNCHANGED <<st, callNo, handlers, level, calls>>

\* the handler and its formatter are built, the formatter embedding
\* st.session_state.session_id (AttributeError when the key is missing),
\* then setLevel(INFO) and addHandler(log_handler)
LoggerAttach(s) ==
    /\ pc[s] = "logger_add"
    /\ IF "session_id" \in DOMAIN st[s]
       THEN /\ handlers' = Append(handlers, st[s]["session_id"])
            /\ level' = "INFO"
            /\ pc' = [pc EXCEPT ![s] = AfterStep("logger")]
            /\ loggerCalls' = loggerCalls + 1
       ELSE /\ Raise(s)
            /\ UNCHANGED <<handlers, level, loggerCalls>>
    /\ UNCHANGED <<st, callNo, calls>>

\* os.makedirs or the construction of TimedRotatingFileHandler raises OSError
LoggerRaise(s) ==
    /\ pc[s] \in {"logger", "logger_add"}
    /\ Raise(s)
    /\ UNCHANGED <<st, callNo, handlers, level, calls, loggerCalls>>

\* -------------------------------------------- initialize_agent_executor
\* the external calls of initialize_agent_executor(), in statement order
ExecutorFirstOrder ==
    <<"enc", "llm", "agent_executor", "customer_doc_chain", "service_doc_chain",
      "company_doc_chain", "rag_chain", "search">>

AgentOrder ==
    <<"enc", "llm", "customer_doc_chain", "service_doc_chain",
      "company_doc_chain", "rag_chain", "search", "agent_executor">>

AgentCalls == {AgentOrder[i] : i \in 1..Len(AgentOrder)}

\* the calls whose result is stored under a session-state key of the same name;
\* SerpAPIWrapper() is kept in a local variable
AgentKeys == AgentCalls \ {"search"}

\* if "agent_executor" in st.session_state: return
AgentExecutorNeverCreated(d) == FALSE

AgentExecutorCreated(d) == "agent_executor" \in DOMAIN d

\* the session state after the first n external calls have returned: each
\* result, an object created by the session's invocation number `no` of
\* initialize(), is
\* assigned to its session-state key
RECURSIVE Assigned(_, _, _)
Assigned(d, n, no) ==
    IF n = 0 THEN d
    ELSE LET call == AgentOrder[n]
             before == Assigned(d, n - 1, no)
         IN  IF call \in AgentKeys THEN Put(before, call, <<call, no>>)
             ELSE before

\* the whole of initialize_agent_executor(): nothing when the executor exists;
\* otherwise the external calls run in order until one raises (n of them
\* return) or all have returned
InitializeAgentExecutor(s) ==
    /\ pc[s] = "agent"
    /\ IF AgentExecutorCreated(st[s])
       THEN /\ pc' = [pc EXCEPT ![s] = AfterStep("agent")]
            /\ UNCHANGED st
       ELSE \E n \in 0..Len(AgentOrder) :
               /\ st' = [st EXCEPT ![s] = Assigned(st[s], n, callNo[s])]
               /\ IF n = Len(AgentOrder)
                  THEN pc' = [pc EXCEPT ![s] = AfterStep("agent")]
                  ELSE Raise(s)
    /\ UNCHANGED <<callNo, handlers, level, calls, loggerCalls>>

Step(s) ==
    \/ InitializeSessionState(s)
    \/ InitializeSessionId(s)
    \/ LoggerCheck(s)
    \/ LoggerAttach(s)
    \/ LoggerRaise(s)
    \/ InitializeAgentExecutor(s)

\* sessions initialise concurrently, each in its own script thread
Next == \E s \in Sessions : Initialize(s) \/ Step(s)

Spec == Init /\ [][Next]_vars

\* sessions initialise one after the other: initialize() starts only while
\* no other session is inside it
InitializeSeq(s) ==
    /\ \A t \in Sessions : AtRest(t)
    /\ Initialize(s)

NextSeq == \E s \in Sessions : InitializeSeq(s) \/ Step(s)

SpecSeq == Init /\ [][NextSeq]_vars

TypeOK ==
    /\ \A s \in Sessions :
          pc[s] \in {"idle", "raised", "session_state", "session_id",
                     "logger", "logger_add", "agent"}
    /\ calls \in 0..MaxCalls
    /\ loggerCalls \in 0..calls
    /\ level \in {"NOTSET", "INFO"}

\* ------------------------------------------------------------ properties
\* session s has been through one complete initialize(): its last statement
\* has assigned the agent executor
Initialized(s) == "agent_executor" \in DOMAIN st[s]

\* C1: initialize() is idempotent.  Every step that a session which has
\* completed one initialize() takes inside a later initialize() (each of the
\* four sub-steps, and a raise) leaves the session's keys and values, the
\* shared logger's handlers and level exactly as they were; hence the state
\* after n >= 1 complete calls is the state after one.
C1_Idempotent ==
    [][\A s \in Sessions :
          (Initialized(s) /\ pc'[s] # pc[s])
              => /\ st'[s] = st[s]
                 /\ handlers' = handlers
                 /\ level' = level]_vars

\* a second initialize() of a session has returned and the session still
\* holds the objects of its first call
C1_Witness ==
    \E s \in Sessions :
        /\ callNo[s] >= 2
        /\ pc[s] = "idle"
        /\ Initialized(s)
        /\ st[s]["agent_executor"] = <<"agent_executor", 1>>
        /\ st[s]["enc"] = <<"enc", 1>>
        /\ Len(handlers) >= 1

\* C2: when initialize_logger() invocations run one after the other, the
\* shared logger has exactly one handler once k >= 1 of them have returned.
C2_ExactlyOneHandler == loggerCalls >= 1 => Len(handlers) = 1

\* two invocations of initialize_logger() have returned
C2_Witness == loggerCalls >= 2 /\ Len(handlers) = 1

\* C3: under every interleaving of concurrently initialising sessions the
\* shared logger never has more than one handler.
C3_AtMostOneHandler == Len(handlers) <= 1

\* C7: the sub-steps take effect in the order session state, session id,
\* logger, agent controller: a sub-step starts only with the effects of the
\* earlier ones in place, and the formatter is built only when the session
\* id exists.
C7_Order ==
    \A s \in Sessions :
        /\ pc[s] \in {"session_id", "logger", "logger_add", "agent"}
              => "messages" \in DOMAIN st[s]
        /\ pc[s] \in {"logger", "logger_add", "agent"}
              => "session_id" \in DOMAIN st[s]
        /\ pc[s] = "agent" => Len(handlers) >= 1
        /\ pc[s] \in {"session_state", "session_id", "logger", "logger_add"}
              /\ callNo[s] = 1
              => DOMAIN st[s] \cap AgentKeys = {}

\* a session has just attached the handler whose format embeds its own id
C7_Witness ==
    \E s \in Sessions :
        /\ pc[s] = "agent"
        /\ Len(handlers) >= 1
        /\ handlers[Len(handlers)] = st[s]["session_id"]
        /\ "agent_executor" \notin DOMAIN st[s]

\* C9: with sessions initialising one after the other, the format of the
\* shared logger is fixed by the first attachment: the first handler embeds
\* the id of the session that attaches it, and no later step of any session
\* changes the handler list.
C9_FormatFixed ==
    [][IF handlers = <<>>
       THEN \/ handlers' = <<>>
            \/ \E s \in Sessions :
                  /\ pc[s] = "logger_add"
                  /\ "session_id" \in DOMAIN st[s]
                  /\ handlers' = <<st[s]["session_id"]>>
       ELSE handlers' = handlers]_vars

\* session a initialised first, session b with another id afterwards, and
\* the only handler still embeds a's id
C9_Witness ==
    \E a, b \in Sessions :
        /\ Initialized(a) /\ Initialized(b)
        /\ pc[a] = "idle" /\ pc[b] = "idle"
        /\ st[a]["session_id"] # st[b]["session_id"]
        /\ handlers = <<st[a]["session_id"]>>

\* C10: agent_executor is present only together with enc, llm and the four
\* chains; an initialize_agent_executor() that raises leaves agent_executor
\* absent; and an initialize_agent_executor() that finds it absent and
\* returns has created every one of the objects anew.
C10_ExecutorLast ==
    /\ [](\A s \in Sessions :
             Initialized(s) =>
                 {"enc", "llm", "customer_doc_chain", "service_doc_chain",
                  "company_doc_chain", "rag_chain"} \subseteq DOMAIN st[s])
    /\ [][\A s \in Sessions :
             /\ (pc[s] = "agent" /\ pc'[s] = "raised")
                   => "agent_executor" \notin DOMAIN st'[s]
             /\ (pc[s] = "agent" /\ ~Initialized(s) /\ pc'[s] = "idle")
                   => \A k \in AgentKeys :
                         /\ k \in DOMAIN st'[s]
                         /\ st'[s][k] = <<k, callNo[s]>>]_vars

\* an attempt raised after the chains were stored, and the session is inside
\* its next initialize(), about to run initialize_agent_executor() again
C10_Witness ==
    \E s \in Sessions :
        /\ callNo[s] = 2
        /\ pc[s] = "agent"
        /\ "rag_chain" \in DOMAIN st[s]
        /\ st[s]["rag_chain"] = <<"rag_chain", 1>>
        /\ "agent_executor" \notin DOMAIN st[s]

====
